---- MODULE Spec2Model ----
(***************************************************************************)
(* A model of google/cloud/forseti/common/gcp_api/servicemanagement.py:    *)
(* the repository client with its memoized `services` accessor, the two    *)
(* name-formatting helpers, and the five read operations of                *)
(* ServiceManagementClient with their try/except translation of transport  *)
(* failures.  The remote API (the pages a listing serves, the documents a  *)
(* single call returns, the failures the transport reports) is the         *)
(* environment: every response is a nondeterministic choice.               *)
(*                                                                         *)
(* Python values: a str is a TLA+ string; an Optional value is a set of at *)
(* most one element (None is the empty set); **kwargs is a set of          *)
(* <<key, value>> pairs; an exception is a record with its class in .type. *)
(***************************************************************************)
EXTENDS Naturals, Sequences, FiniteSets, TLC

\* ------------------------------------------------------------------ bounds
\* Operations one thread set may start in one behaviour.
MaxCalls == 3
\* Pages the remote serves for one listing, at most.
MaxPages == 3
\* Threads sharing one repository client in the concurrent specification.
MaxThreads == 2
\* Largest quota_max_calls a constructor is given.
MaxQuota == 3
\* Pieces concatenated to build the inputs of the formatting helpers.
MaxParts == 2

\* ------------------------------------------------------ program constants
API_NAME == "servicemanagement"
DEFAULT_MAX_RESULTS == 100
DEFAULT_QUOTA_PERIOD == 100

None == {}
Some(v) == {v}
TheValue(o) == CHOOSE v \in o : TRUE

\* ------------------------------------------------------------ environment
\* The classes of failure a remote call can end in: the two transport
\* classes the module imports, and any other class (an auth refresh error,
\* a socket error, ...) which is a subclass of neither.
TransportErrors == {"HttpError", "HttpLib2Error"}
ExceptionTypes == TransportErrors \cup {"OtherError"}

\* ManagedService resources, and the pages a listing can serve: the
\* 'services' key may be absent from a page.
Pages ==
    { [has_key |-> FALSE, services |-> <<>>],
      [has_key |-> TRUE,  services |-> <<>>],
      [has_key |-> TRUE,  services |-> <<"svcA">>],
      [has_key |-> TRUE,  services |-> <<"svcB">>],
      [has_key |-> TRUE,  services |-> <<"svcA", "svcB">>] }

\* Documents a single call (getIamPolicy, getConfig) can return.
Documents == {"docA", "docB"}

\* Arguments callers pass.
ProjectIds == {"p1", "project:p1"}
ServiceNames == {"svcA", "services/svcA"}

\* ------------------------------------------------------------------ state
VARIABLES
    repository,     \* ServiceManagementClient.repository: what the repository
                    \* client passed to the base constructor, or NoClient
    _services,      \* ServiceManagementRepositoryClient._services
    constructions,  \* how many times _init_repository built a sub-repository
    threads,        \* the threads sharing the client
    pc,             \* per thread: the statement it is at
    frame,          \* per thread: the running operation's locals and its
                    \* record of the remote traffic it caused
    ncalls,         \* operations started so far
    fmt             \* the formatting helpers applied on their own

vars == <<repository, _services, constructions, threads, pc, frame, ncalls, fmt>>

NoClient == [constructed |-> FALSE]

\* --------------------------------------------------- formatting helpers
startswith(s, prefix) ==
    Len(s) >= Len(prefix) /\ SubSeq(s, 1, Len(prefix)) = prefix

\* A helper that prefixes without looking.
get_formatted_project_name_always(project_id) == "project:" \o project_id

get_formatted_project_name(project_id) ==
    IF ~startswith(project_id, "project:")
    THEN "project:" \o project_id
    ELSE project_id

get_formatted_service_name(service_name) ==
    IF ~startswith(service_name, "services/")
    THEN "services/" \o service_name
    ELSE service_name

\* ---------------------------------------------------------- constructors
\* Python truthiness of an Optional[int]: None and 0 are falsy.
Falsy(quota_max_calls) == quota_max_calls = None \/ quota_max_calls = Some(0)

\* kwargs.get(key, default)
KwargsGet(kwargs, key, default) ==
    IF \E kv \in kwargs : kv[1] = key
    THEN (CHOOSE kv \in kwargs : kv[1] = key)[2]
    ELSE default

\* A constructor that tests `quota_max_calls is None` and so lets 0 through.
RepositoryClientInitIsNone(quota_max_calls, quota_period, use_rate_limiter, cache_discovery, cache) ==
    [constructed |-> TRUE,
     api_name |-> API_NAME,
     versions |-> <<"v1">>,
     quota_max_calls |-> quota_max_calls,
     quota_period |-> quota_period,
     use_rate_limiter |->
         IF quota_max_calls = None THEN FALSE ELSE use_rate_limiter,
     cache_discovery |-> cache_discovery,
     cache |-> cache,
     given_use_rate_limiter |-> use_rate_limiter]

\* ServiceManagementRepositoryClient.__init__: the arguments handed to
\* BaseRepositoryClient.__init__ (given_use_rate_limiter records the
\* caller's own argument).
RepositoryClientInit(quota_max_calls, quota_period, use_rate_limiter, cache_discovery, cache) ==
    [constructed |-> TRUE,
     api_name |-> API_NAME,
     versions |-> <<"v1">>,
     quota_max_calls |-> quota_max_calls,
     quota_period |-> quota_period,
     use_rate_limiter |->
         IF Falsy(quota_max_calls) THEN FALSE ELSE use_rate_limiter,
     cache_discovery |-> cache_discovery,
     cache |-> cache,
     given_use_rate_limiter |-> use_rate_limiter]

\* ServiceManagementClient.__init__, given what get_ratelimiter_config read
\* from the global configuration.
ClientInit(max_calls, quota_period, global_configs, kwargs) ==
    RepositoryClientInit(
        max_calls,
        quota_period,
        KwargsGet(kwargs, "use_rate_limiter", TRUE),
        KwargsGet(global_configs, "cache_discovery", FALSE),
        IF \E kv \in global_configs : kv[1] = "cache"
        THEN Some(KwargsGet(global_configs, "cache", "none")) ELSE None)

\* ------------------------------------------------------------- operations
ListOps == {"get_all_apis", "get_produced_apis", "get_enabled_apis"}
ExecuteOps == {"get_api_iam_policy", "get_full_api_configuration"}

\* The statements of each operation, in order.  "services" is one read of
\* the repository client's accessor; the operation named "services" is a
\* caller reading the accessor directly.
Plan(op) ==
    CASE op = "services" -> <<"services">>
      [] op = "get_all_apis" -> <<"services", "list", "flatten">>
      [] op = "get_produced_apis" -> <<"services", "list", "flatten">>
      [] op = "get_enabled_apis" ->
            <<"services", "format", "services", "list", "flatten">>
      [] op = "get_api_iam_policy" ->
            <<"services", "format", "services", "execute">>
      [] op = "get_full_api_configuration" -> <<"services", "execute">>

PcOf(statement) == IF statement = "services" THEN "check" ELSE statement

NoOutcome == [kind |-> "none"]

\* The locals of a fresh invocation; after_failure records that the
\* thread's previous invocation raised.
NewFrame(op, arg, after_failure) ==
    [op |-> op, arg |-> arg, step |-> 1,
     built |-> None,        \* the sub-repository _init_repository returned
     reads |-> <<>>,        \* what each read of the accessor returned
     name |-> None,         \* formatted_project_id / name
     list_calls |-> <<>>,   \* the services.list() calls made
     execute_calls |-> <<>>,\* the single-response calls made
     next_page |-> 0,       \* the paging generator: the page it asks next
     fetches |-> <<>>,      \* the page requests sent, with how each ended
     responses |-> <<>>,    \* the pages / documents received
     flattened |-> <<>>,    \* flatten_list_results' accumulator
     result |-> None,
     raised |-> None,       \* the exception in flight
     outcome |-> NoOutcome,
     after_failure |-> after_failure]

IdleFrame == NewFrame("none", "", FALSE)

\* The statement after the current one; "return" after the last.
NextPc(f) ==
    IF f.step < Len(Plan(f.op)) THEN PcOf(Plan(f.op)[f.step + 1]) ELSE "return"

Advance(t, f) ==
    /\ frame' = [frame EXCEPT ![t] = [f EXCEPT !.step = f.step + 1]]
    /\ pc' = [pc EXCEPT ![t] = NextPc(f)]

\* An invocation starts: fresh locals, first statement.
Call(t, op, arg) ==
    /\ repository.constructed
    /\ pc[t] \in {"idle", "done"}
    /\ ncalls < MaxCalls
    /\ ncalls' = ncalls + 1
    /\ frame' = [frame EXCEPT
                   ![t] = NewFrame(op, arg, frame[t].outcome.kind = "raise")]
    /\ pc' = [pc EXCEPT ![t] = PcOf(Plan(op)[1])]
    /\ UNCHANGED <<repository, _services, constructions, threads, fmt>>

read_services(t) == Call(t, "services", "")
get_all_apis(t) == Call(t, "get_all_apis", "")
get_produced_apis(t, project_id) == Call(t, "get_produced_apis", project_id)
get_enabled_apis(t, project_id) == Call(t, "get_enabled_apis", project_id)
get_api_iam_policy(t, service_name) == Call(t, "get_api_iam_policy", service_name)
get_full_api_configuration(t, service_name) == Call(t, "get_full_api_configuration", service_name)

\* ------------------------------------------------- the services accessor
\* `if not self._services:` with the test dropped: construct on every read.
services_check_always(t) ==
    /\ pc[t] = "check"
    /\ pc' = [pc EXCEPT ![t] = "construct"]
    /\ UNCHANGED <<repository, _services, constructions, threads, frame, ncalls, fmt>>

\* `if self._services:`: the test inverted.
services_check_inverted(t) ==
    /\ pc[t] = "check"
    /\ pc' = [pc EXCEPT ![t] = IF _services # None THEN "construct" ELSE "read"]
    /\ UNCHANGED <<repository, _services, constructions, threads, frame, ncalls, fmt>>

\* `if not self._services:`
services_check(t) ==
    /\ pc[t] = "check"
    /\ pc' = [pc EXCEPT ![t] = IF _services = None THEN "construct" ELSE "read"]
    /\ UNCHANGED <<repository, _services, constructions, threads, frame, ncalls, fmt>>

\* The construction under a lock no other thread holds.
services_construct_locked(t) ==
    /\ pc[t] = "construct"
    /\ \A u \in threads \ {t} : pc[u] \notin {"construct", "assign"}
    /\ constructions' = constructions + 1
    /\ frame' = [frame EXCEPT ![t].built = Some(constructions + 1)]
    /\ pc' = [pc EXCEPT ![t] = "assign"]
    /\ UNCHANGED <<repository, _services, threads, ncalls, fmt>>

\* `self._init_repository(_ServiceManagementServicesRepository)`: a new
\* sub-repository object, identified by its number.
services_construct(t) ==
    /\ pc[t] = "construct"
    /\ constructions' = constructions + 1
    /\ frame' = [frame EXCEPT ![t].built = Some(constructions + 1)]
    /\ pc' = [pc EXCEPT ![t] = "assign"]
    /\ UNCHANGED <<repository, _services, threads, ncalls, fmt>>

\* `self._services = ...`
services_assign(t) ==
    /\ pc[t] = "assign"
    /\ _services' = frame[t].built
    /\ pc' = [pc EXCEPT ![t] = "read"]
    /\ UNCHANGED <<repository, constructions, threads, frame, ncalls, fmt>>

\* `return self._services`
services_return(t) ==
    /\ pc[t] = "read"
    /\ Advance(t, [frame[t] EXCEPT !.reads = Append(@, _services)])
    /\ UNCHANGED <<repository, _services, constructions, threads, ncalls, fmt>>

\* ------------------------------------------------------ name formatting
\* formatted_project_id = ...get_formatted_project_name(project_id)
\* name = ...get_formatted_service_name(service_name)
format_name(t) ==
    /\ pc[t] = "format"
    /\ Advance(t, [frame[t] EXCEPT !.name =
            Some(IF frame[t].op = "get_enabled_apis"
                 THEN get_formatted_project_name(frame[t].arg)
                 ELSE get_formatted_service_name(frame[t].arg))])
    /\ UNCHANGED <<repository, _services, constructions, threads, ncalls, fmt>>

\* ------------------------------------------------------------ list calls
\* get_enabled_apis passing the caller's id instead of the formatted one.
ListArgumentsRaw(op, arg, name) ==
    [consumerId |-> IF op = "get_enabled_apis" THEN Some(arg) ELSE None,
     producerProjectId |-> IF op = "get_produced_apis" THEN Some(arg) ELSE None,
     max_results |-> DEFAULT_MAX_RESULTS]

\* The keyword arguments each operation gives services.list().
ListArguments(op, arg, name) ==
    [consumerId |-> IF op = "get_enabled_apis" THEN name ELSE None,
     producerProjectId |-> IF op = "get_produced_apis" THEN Some(arg) ELSE None,
     max_results |-> DEFAULT_MAX_RESULTS]

\* paged_results = self.repository.services.list(...): a generator; no
\* request is sent until it is iterated.
list(t) ==
    /\ pc[t] = "list"
    /\ Advance(t, [frame[t] EXCEPT
            !.list_calls =
                Append(@, ListArguments(frame[t].op, frame[t].arg, frame[t].name)),
            !.next_page = 1])
    /\ UNCHANGED <<repository, _services, constructions, threads, ncalls, fmt>>

\* What one page adds to flatten_list_results' accumulator.
PageItems(page) == IF page.has_key THEN page.services ELSE <<>>

\* flatten_list_results iterates the generator: the next page is requested
\* and arrives; the remote says whether another follows.
fetch_page(t) ==
    /\ pc[t] = "flatten"
    /\ frame[t].next_page <= MaxPages
    /\ \E page \in Pages, more \in BOOLEAN :
        /\ more => frame[t].next_page < MaxPages
        /\ LET f == [frame[t] EXCEPT
                       !.fetches = Append(@, [page |-> frame[t].next_page,
                                              result |-> "ok"]),
                       !.responses = Append(@, page),
                       !.flattened = @ \o PageItems(page),
                       !.next_page = @ + 1]
           IN IF more
              THEN /\ frame' = [frame EXCEPT ![t] = f]
                   /\ pc' = pc
              ELSE Advance(t, f)
    /\ UNCHANGED <<repository, _services, constructions, threads, ncalls, fmt>>

\* The next page is requested and the transport raises.
fetch_page_fails(t) ==
    /\ pc[t] = "flatten"
    /\ frame[t].next_page <= MaxPages
    /\ \E type \in ExceptionTypes :
        /\ frame' = [frame EXCEPT
              ![t].fetches = Append(@, [page |-> frame[t].next_page,
                                        result |-> type]),
              ![t].raised = Some([type |-> type,
                                  request |-> Len(frame[t].fetches) + 1])]
        /\ pc' = [pc EXCEPT ![t] = "except"]
    /\ UNCHANGED <<repository, _services, constructions, threads, ncalls, fmt>>

\* ---------------------------------------------------- single-response calls
\* _ServiceManagementServicesRepository.get_config: the verb and the
\* arguments handed to execute_query; configId and view only when supplied.
get_config(resource, config_id, view, verb) ==
    [verb |-> verb, serviceName |-> resource, configId |-> config_id, view |-> view]

\* GetIamPolicyQueryMixin.get_iam_policy: the getIamPolicy verb on the
\* resource it is given.
get_iam_policy(resource) ==
    [verb |-> "getIamPolicy", resource |-> resource]

\* get_api_iam_policy passing the caller's name instead of the formatted one.
RemoteCallRaw(op, arg, name) ==
    IF op = "get_api_iam_policy"
    THEN get_iam_policy(arg)
    ELSE get_config(arg, None, None, "getConfig")

\* result = self.repository.services.get_iam_policy(name)
\* result = self.repository.services.get_config(service_name)
RemoteCall(op, arg, name) ==
    IF op = "get_api_iam_policy"
    THEN get_iam_policy(TheValue(name))
    ELSE get_config(arg, None, None, "getConfig")

\* The call is made and the remote answers with a document.
execute(t) ==
    /\ pc[t] = "execute"
    /\ \E doc \in Documents :
        Advance(t, [frame[t] EXCEPT
            !.execute_calls =
                Append(@, RemoteCall(frame[t].op, frame[t].arg, frame[t].name)),
            !.responses = Append(@, doc),
            !.result = Some(doc)])
    /\ UNCHANGED <<repository, _services, constructions, threads, ncalls, fmt>>

\* The call is made and the transport raises.
execute_fails(t) ==
    /\ pc[t] = "execute"
    /\ \E type \in ExceptionTypes :
        /\ frame' = [frame EXCEPT
              ![t].execute_calls =
                  Append(@, RemoteCall(frame[t].op, frame[t].arg, frame[t].name)),
              ![t].raised = Some([type |-> type, request |-> 1])]
        /\ pc' = [pc EXCEPT ![t] = "except"]
    /\ UNCHANGED <<repository, _services, constructions, threads, ncalls, fmt>>

\* ------------------------------------------------------ return and except
\* api_errors.ApiExecutionError(resource_name, e[, key, value])
ApiExecutionError(resource_name, e, tag) ==
    [type |-> "ApiExecutionError", resource_name |-> resource_name,
     e |-> e, tag |-> tag]

\* An except clause that names HttpError only.
CatchesHttpErrorOnly(e) == e.type = "HttpError"

\* A bare `except Exception`.
CatchesEverything(e) == TRUE

\* except (errors.HttpError, HttpLib2Error) as e
Catches(e) == e.type \in TransportErrors

\* The error tagged with the formatted identifier instead of the caller's.
WrapErrorFormatted(op, arg, e) ==
    CASE op = "get_all_apis" -> ApiExecutionError("", e, <<>>)
      [] op = "get_produced_apis" ->
            ApiExecutionError("name", e, <<"project_id", arg>>)
      [] op = "get_enabled_apis" ->
            ApiExecutionError("name", e,
                <<"project_id", get_formatted_project_name(arg)>>)
      [] op = "get_api_iam_policy" ->
            ApiExecutionError("serviceIamPolicy", e,
                <<"serviceName", get_formatted_service_name(arg)>>)
      [] op = "get_full_api_configuration" ->
            ApiExecutionError("serviceConfig", e, <<"serviceName", arg>>)

\* The ApiExecutionError each operation's handler builds.
WrapError(op, arg, e) ==
    CASE op = "get_all_apis" -> ApiExecutionError("", e, <<>>)
      [] op = "get_produced_apis" ->
            ApiExecutionError("name", e, <<"project_id", arg>>)
      [] op = "get_enabled_apis" ->
            ApiExecutionError("name", e, <<"project_id", arg>>)
      [] op = "get_api_iam_policy" ->
            ApiExecutionError("serviceIamPolicy", e, <<"serviceName", arg>>)
      [] op = "get_full_api_configuration" ->
            ApiExecutionError("serviceConfig", e, <<"serviceName", arg>>)

\* The exception leaves the try block: wrapped and raised by the handler
\* when the except clause matches it, raised to the caller as it is when
\* not.
except(t) ==
    /\ pc[t] = "except"
    /\ LET e == TheValue(frame[t].raised)
       IN frame' = [frame EXCEPT ![t].outcome =
              [kind |-> "raise",
               exc |-> IF Catches(e)
                       THEN WrapError(frame[t].op, frame[t].arg, e)
                       ELSE e]]
    /\ pc' = [pc EXCEPT ![t] = "done"]
    /\ UNCHANGED <<repository, _services, constructions, threads, ncalls, fmt>>

\* return flattened_results / return result / the accessor's value
ReturnValue(f) ==
    CASE f.op \in ListOps -> f.flattened
      [] f.op \in ExecuteOps -> TheValue(f.result)
      [] OTHER -> f.reads[Len(f.reads)]

return(t) ==
    /\ pc[t] = "return"
    /\ frame' = [frame EXCEPT ![t].outcome =
          [kind |-> "return", value |-> ReturnValue(frame[t])]]
    /\ pc' = [pc EXCEPT ![t] = "done"]
    /\ UNCHANGED <<repository, _services, constructions, threads, ncalls, fmt>>

\* --------------------------------------------------- constructing a client
QuotaValues == {None} \cup {Some(n) : n \in 0..MaxQuota}
QuotaPeriods == {DEFAULT_QUOTA_PERIOD, 60, 1}
GlobalConfigs ==
    { cd \cup c :
        cd \in {{}, {<<"cache_discovery", TRUE>>}, {<<"cache_discovery", FALSE>>}},
        c \in {{}, {<<"cache", "discovery_cache">>}} }
Kwargs == {{}, {<<"use_rate_limiter", TRUE>>}, {<<"use_rate_limiter", FALSE>>}}

\* ServiceManagementClient(global_configs, **kwargs)
new_client ==
    /\ ~repository.constructed
    /\ \E max_calls \in QuotaValues, quota_period \in QuotaPeriods,
          global_configs \in GlobalConfigs, kwargs \in Kwargs :
          repository' = ClientInit(max_calls, quota_period, global_configs, kwargs)
    /\ _services' = None
    /\ UNCHANGED <<constructions, threads, pc, frame, ncalls, fmt>>

\* ServiceManagementRepositoryClient(...) constructed directly, with the
\* defaults of its signature for what the caller leaves out.
new_repository_client ==
    /\ ~repository.constructed
    /\ \E quota_max_calls \in QuotaValues, use_rate_limiter \in BOOLEAN :
          repository' = RepositoryClientInit(quota_max_calls, DEFAULT_QUOTA_PERIOD,
                                             use_rate_limiter, FALSE, None)
    /\ _services' = None
    /\ UNCHANGED <<constructions, threads, pc, frame, ncalls, fmt>>

\* ------------------------------------ the formatting helpers on their own
Pieces == {"project:", "services/", "project", "services", "p", "1", ":", "/"}

RECURSIVE Strings(_)
\* The strings made of at most n pieces.
Strings(n) ==
    IF n = 0 THEN {""}
    ELSE Strings(n - 1) \cup {s \o piece : s \in Strings(n - 1), piece \in Pieces}

FormatInputs == Strings(MaxParts)

NoFormat == [helper |-> "none", x |-> "", applied |-> 0, once |-> "", twice |-> ""]

Helper(h, x) ==
    IF h = "get_formatted_project_name"
    THEN get_formatted_project_name(x)
    ELSE get_formatted_service_name(x)

\* y = f(x)
format_once ==
    /\ fmt.helper # "none"
    /\ fmt.applied = 0
    /\ fmt' = [fmt EXCEPT !.applied = 1, !.once = Helper(fmt.helper, fmt.x)]
    /\ UNCHANGED <<repository, _services, constructions, threads, pc, frame, ncalls>>

\* z = f(y)
format_twice ==
    /\ fmt.helper # "none"
    /\ fmt.applied = 1
    /\ fmt' = [fmt EXCEPT !.applied = 2, !.twice = Helper(fmt.helper, fmt.once)]
    /\ UNCHANGED <<repository, _services, constructions, threads, pc, frame, ncalls>>

\* --------------------------------------------------------- specifications
InitThreads(T) ==
    /\ threads = T
    /\ pc = [t \in T |-> "idle"]
    /\ frame = [t \in T |-> IdleFrame]
    /\ ncalls = 0
    /\ constructions = 0
    /\ _services = None

\* One thread using a client built from a global configuration with or
\* without a rate limit for this API.
Init ==
    /\ InitThreads({1})
    /\ repository \in {ClientInit(q, DEFAULT_QUOTA_PERIOD, {}, {}) : q \in {None, Some(1)}}
    /\ fmt = NoFormat

Next ==
    \/ \E t \in threads : read_services(t)
    \/ \E t \in threads : get_all_apis(t)
    \/ \E t \in threads, project_id \in ProjectIds : get_produced_apis(t, project_id)
    \/ \E t \in threads, project_id \in ProjectIds : get_enabled_apis(t, project_id)
    \/ \E t \in threads, service_name \in ServiceNames : get_api_iam_policy(t, service_name)
    \/ \E t \in threads, service_name \in ServiceNames : get_full_api_configuration(t, service_name)
    \/ \E t \in threads : services_check(t)
    \/ \E t \in threads : services_construct(t)
    \/ \E t \in threads : services_assign(t)
    \/ \E t \in threads : services_return(t)
    \/ \E t \in threads : format_name(t)
    \/ \E t \in threads : list(t)
    \/ \E t \in threads : fetch_page(t)
    \/ \E t \in threads : fetch_page_fails(t)
    \/ \E t \in threads : execute(t)
    \/ \E t \in threads : execute_fails(t)
    \/ \E t \in threads : except(t)
    \/ \E t \in threads : return(t)

Spec == Init /\ [][Next]_vars

\* Several threads reading the accessor of one shared repository client.
InitRace ==
    /\ InitThreads(1..MaxThreads)
    /\ repository = RepositoryClientInit(None, DEFAULT_QUOTA_PERIOD, TRUE, FALSE, None)
    /\ fmt = NoFormat

NextRace ==
    \/ \E t \in threads : read_services(t)
    \/ \E t \in threads : services_check(t)
    \/ \E t \in threads : services_construct(t)
    \/ \E t \in threads : services_assign(t)
    \/ \E t \in threads : services_return(t)
    \/ \E t \in threads : return(t)

SpecRace == InitRace /\ [][NextRace]_vars

\* The constructors.
InitNew ==
    /\ InitThreads({1})
    /\ repository = NoClient
    /\ fmt = NoFormat

NextNew == new_client \/ new_repository_client

SpecNew == InitNew /\ [][NextNew]_vars

\* The formatting helpers applied to a string, and to their own result.
InitFormat ==
    /\ InitThreads({1})
    /\ repository = NoClient
    /\ fmt \in {[NoFormat EXCEPT !.helper = h, !.x = x] :
                  h \in {"get_formatted_project_name", "get_formatted_service_name"},
                  x \in FormatInputs}

NextFormat == format_once \/ format_twice

SpecFormat == InitFormat /\ [][NextFormat]_vars

\* ------------------------------------------------------------------ claims
\* The tag the error of each operation is to carry: the caller's own input.
RawTag(op, arg) ==
    CASE op \in {"get_produced_apis", "get_enabled_apis"} -> <<"project_id", arg>>
      [] op \in ExecuteOps -> <<"serviceName", arg>>
      [] OTHER -> <<>>

Prefixed(x, prefix) == IF startswith(x, prefix) THEN x ELSE prefix \o x

RECURSIVE FlattenAll(_)
\* All the items of a sequence of pages, in page order and in-page order.
FlattenAll(pages) ==
    IF pages = <<>> THEN <<>>
    ELSE (IF Head(pages).has_key THEN Head(pages).services ELSE <<>>)
         \o FlattenAll(Tail(pages))

\* C1: an operation whose remote call or page fetch ended in a transport
\* failure (HttpError, HttpLib2Error) has raised one ApiExecutionError that
\* carries that failure as its cause and the caller's raw identifier as its
\* tag: project_id for get_produced_apis and get_enabled_apis, serviceName
\* for get_api_iam_policy and get_full_api_configuration, none for
\* get_all_apis.
C1_TransportFailureWrapped ==
    \A t \in threads :
        ( /\ pc[t] = "done"
          /\ frame[t].raised # None
          /\ TheValue(frame[t].raised).type \in {"HttpError", "HttpLib2Error"} )
        => /\ frame[t].outcome.kind = "raise"
           /\ frame[t].outcome.exc.type = "ApiExecutionError"
           /\ frame[t].outcome.exc.e = TheValue(frame[t].raised)
           /\ frame[t].outcome.exc.tag = RawTag(frame[t].op, frame[t].arg)

\* get_enabled_apis("p1") failed on its second page with an HttpLib2Error
\* and raised the error tagged project_id = "p1".
C1_Witness ==
    \E t \in threads :
        /\ pc[t] = "done"
        /\ frame[t].op = "get_enabled_apis"
        /\ frame[t].arg = "p1"
        /\ frame[t].raised = Some([type |-> "HttpLib2Error", request |-> 2])
        /\ frame[t].outcome.kind = "raise"
        /\ frame[t].outcome.exc.tag = <<"project_id", "p1">>

C3_PageFailureAborts ==
    \A t \in threads :
        frame[t].op \in ListOps =>
            /\ \A i \in 1..Len(frame[t].fetches) : frame[t].fetches[i].page = i
            /\ \A i \in 1..Len(frame[t].fetches) :
                frame[t].fetches[i].result \in {"HttpError", "HttpLib2Error"} =>
                    /\ i = Len(frame[t].fetches)
                    /\ pc[t] \in {"except", "done"}
                    /\ pc[t] = "done" =>
                        /\ frame[t].outcome.kind = "raise"
                        /\ frame[t].outcome.exc.type = "ApiExecutionError"

\* A listing failed on its third page, after items of the earlier pages had
\* been flattened, and raised.
C3_Witness ==
    \E t \in threads :
        /\ pc[t] = "done"
        /\ frame[t].op \in ListOps
        /\ Len(frame[t].fetches) = 3
        /\ frame[t].fetches[3].result \in {"HttpError", "HttpLib2Error"}
        /\ frame[t].flattened # <<>>
        /\ frame[t].outcome.kind = "raise"

\* C4: with the reads of the accessor made one after another, the
\* sub-repository is constructed at most once, exactly once as soon as a
\* read is under way past its test, and every read returns the one handle
\* the client holds.
C4_ConstructedOnce ==
    /\ constructions <= 1
    /\ _services # None => constructions = 1
    /\ \A t \in threads :
        \A i \in 1..Len(frame[t].reads) :
            /\ frame[t].reads[i] # None
            /\ frame[t].reads[i] = _services
            /\ constructions = 1

\* A later operation that read the accessor twice, with one construction.
C4_Witness ==
    \E t \in threads :
        /\ ncalls >= 2
        /\ pc[t] = "done"
        /\ Len(frame[t].reads) = 2
        /\ constructions = 1

C6_EnabledApisListCall ==
    \A t \in threads :
        frame[t].op = "get_enabled_apis" =>
            /\ Len(frame[t].list_calls) <= 1
            /\ pc[t] \in {"flatten", "return", "except", "done"} =>
                /\ Len(frame[t].list_calls) = 1
                /\ frame[t].list_calls[1].consumerId
                       = Some(Prefixed(frame[t].arg, "project:"))
                /\ startswith(TheValue(frame[t].list_calls[1].consumerId), "project:")
                /\ frame[t].list_calls[1].max_results = 100
                /\ frame[t].list_calls[1].producerProjectId = None

\* get_enabled_apis("p1") finished having listed with consumerId
\* "project:p1".
C6_Witness ==
    \E t \in threads :
        /\ pc[t] = "done"
        /\ frame[t].op = "get_enabled_apis"
        /\ frame[t].arg = "p1"
        /\ frame[t].list_calls = <<[consumerId |-> Some("project:p1"),
                                    producerProjectId |-> None,
                                    max_results |-> 100]>>

\* C7: get_api_iam_policy makes one getIamPolicy call on the service name
\* under the "services/" prefix (added when the caller's name lacks it), and
\* returns the policy document it received.
C7_IamPolicyCall ==
    \A t \in threads :
        ( frame[t].op = "get_api_iam_policy"
          /\ pc[t] \in {"return", "except", "done"} )
        => /\ Len(frame[t].execute_calls) = 1
           /\ frame[t].execute_calls[1].verb = "getIamPolicy"
           /\ frame[t].execute_calls[1].resource
                  = Prefixed(frame[t].arg, "services/")
           /\ startswith(frame[t].execute_calls[1].resource, "services/")
           /\ (pc[t] = "done" /\ frame[t].raised = None) =>
                /\ frame[t].outcome.kind = "return"
                /\ frame[t].outcome.value = frame[t].responses[1]

\* get_api_iam_policy("svcA") asked for "services/svcA" and returned docB.
C7_Witness ==
    \E t \in threads :
        /\ pc[t] = "done"
        /\ frame[t].op = "get_api_iam_policy"
        /\ frame[t].arg = "svcA"
        /\ frame[t].execute_calls[1].resource = "services/svcA"
        /\ frame[t].responses = <<"docB">>
        /\ frame[t].outcome = [kind |-> "return", value |-> "docB"]

\* C8: the base repository is given use_rate_limiter = True only with a
\* quota_max_calls that is present and not zero.
C8_RateLimiterNeedsQuota ==
    (repository.constructed /\ repository.use_rate_limiter) =>
        /\ repository.quota_max_calls # None
        /\ repository.quota_max_calls # Some(0)

\* The caller asked for the rate limiter with a quota of zero and the base
\* repository was told not to use it.
C8_Witness ==
    /\ repository.constructed
    /\ repository.given_use_rate_limiter
    /\ repository.quota_max_calls = Some(0)
    /\ ~repository.use_rate_limiter

\* C9: nothing guards the accessor's construction: a thread that found
\* _services empty can construct whatever the other threads are doing, so
\* several constructions and different handles are reachable.
C9_ConstructionUnguarded ==
    \A t \in threads : pc[t] = "construct" => ENABLED services_construct(t)

\* Two threads read the accessor at once: two sub-repositories were
\* constructed and the two reads returned different handles.
C9_Witness ==
    \E t \in threads, u \in threads :
        /\ constructions >= 2
        /\ pc[t] = "done" /\ pc[u] = "done"
        /\ frame[t].outcome.kind = "return"
        /\ frame[u].outcome.kind = "return"
        /\ frame[t].outcome.value # None
        /\ frame[u].outcome.value # None
        /\ frame[t].outcome.value # frame[u].outcome.value

\* C10: no step changes the client's configuration, and _services changes
\* only from empty to a handle; a listing that returns, also one after a
\* failed call, asked for page one first and returns exactly the items of
\* the pages served to this call.
C10_NoLocalStateButHandle ==
    [][ /\ repository' = repository
        /\ _services' # _services => _services = None
        /\ \A t \in threads :
            ( /\ pc'[t] = "done"
              /\ frame'[t].op \in ListOps
              /\ frame'[t].outcome.kind = "return" )
            => /\ frame'[t].fetches # <<>>
               /\ frame'[t].fetches[1].page = 1
               /\ Len(frame'[t].responses) = Len(frame'[t].fetches)
               /\ frame'[t].outcome.value = FlattenAll(frame'[t].responses)
      ]_vars

\* A listing that followed a failed call returned the items of its own two
\* pages.
C10_Witness ==
    \E t \in threads :
        /\ pc[t] = "done"
        /\ frame[t].after_failure
        /\ frame[t].op \in ListOps
        /\ Len(frame[t].fetches) = 2
        /\ frame[t].fetches[1].page = 1
        /\ frame[t].outcome = [kind |-> "return", value |-> <<"svcA", "svcB", "svcB">>]

====
